---- MODULE Spec2Model ----
(***************************************************************************)
(* Model of the test-runner service of odoo-module-builder:                *)
(*   src/test-runner/main.py                     (HTTP handlers, pipeline) *)
(*   src/test-runner/services/docker_manager.py  (provisioning, cleanup)   *)
(*   src/test-runner/services/test_executor.py   (run_tests and parsers)   *)
(*   src/test-runner/services/uat_manager.py     (acceptance sessions)     *)
(*                                                                         *)
(* The service is one asyncio event loop.  Handlers and background tasks   *)
(* are coroutines: a coroutine keeps the loop until it reaches an await    *)
(* that really suspends (an httpx call, asyncio.sleep).  The variable      *)
(* `running` holds the coroutine that owns the loop between two such       *)
(* suspension points, so that the statements of one segment are separate   *)
(* steps of the model and still cannot interleave with another coroutine.  *)
(***************************************************************************)
EXTENDS Integers, Sequences, FiniteSets, TLC

(* ------------------------------- bounds -------------------------------- *)
\* number of POST /test/start (resp. /uat/start) requests in one behaviour
NumTasks == 2
\* number of POST /test/stop requests in one behaviour
MaxStops == 2
\* sleeps of a readiness poll loop before its wall-clock timeout must fire
MaxPolls == 1
\* test cases in one pytest report (SpecExec)
MaxTests == 2
\* test cases in the report of a pipeline run (Spec)
MaxSessionTests == 1

\* distinct session ids the requests of one behaviour can draw
NumIds == 2

Tasks == 1..NumTasks
NoTask == 0
\* session ids: f"test_{project_id}_{int(timestamp)}" is one id per project
\* and second, so two requests for one project within one second draw the
\* same id.  Only equality of ids matters; they are numbered in the order
\* in which they are first drawn
SessionIds == 1..NumIds

NoMsg == "none"

(* ======================= test_executor.py ============================== *)

Outcomes == {"passed", "failed", "skipped", "error"}

RECURSIVE CountOutcome(_, _)
CountOutcome(tests, o) ==
    IF tests = <<>> THEN 0
    ELSE (IF Head(tests) = o THEN 1 ELSE 0) + CountOutcome(Tail(tests), o)

\* All sequences over S of length at most n
SeqsUpTo(S, n) == UNION {[1..k -> S] : k \in 0..n}

\* results.json as written by pytest-json-report for a finished run: the
\* summary counts every outcome under its own key and all of them in total
JsonReport(tests) ==
    [summary |-> [total   |-> Len(tests),
                  passed  |-> CountOutcome(tests, "passed"),
                  failed  |-> CountOutcome(tests, "failed"),
                  skipped |-> CountOutcome(tests, "skipped"),
                  error   |-> CountOutcome(tests, "error")],
     tests   |-> tests]

\* results.xml as written by --junit-xml: the counters are attributes of the
\* <testsuite> element; root_is_suite tells whether that element is the
\* document root (legacy layout) or is wrapped in <testsuites>
XmlReport(tests, root_is_suite) ==
    [tests     |-> IF root_is_suite THEN Len(tests) ELSE 0,
     failures  |-> IF root_is_suite THEN CountOutcome(tests, "failed") ELSE 0,
     errors    |-> IF root_is_suite THEN CountOutcome(tests, "error") ELSE 0,
     skipped   |-> IF root_is_suite THEN CountOutcome(tests, "skipped") ELSE 0,
     testcases |-> tests]

\* state of a report file in the test directory
JsonStates == {"absent", "malformed", "ok"}
XmlStates  == {"absent", "malformed", "suite_root", "suites_root"}

\* how the pytest subprocess ends (_execute_pytest) or "setup_error" when
\* run_tests raises before it gets there (makedirs, open, write)
RunModes == {"finished", "timeout", "spawn_error", "setup_error"}

TimeoutMsg == "Test execution timed out after 10 minutes"
ContainsTimedOut(msg) == msg = TimeoutMsg

\* _execute_pytest: the dict it returns
_execute_pytest(mode) ==
    CASE mode = "finished"    -> [exit_code |-> 0,  stderr |-> NoMsg,
                                  success |-> TRUE]
      [] mode = "timeout"     -> [exit_code |-> -1, stderr |-> TimeoutMsg,
                                  success |-> FALSE]
      [] OTHER                -> [exit_code |-> -1, stderr |-> "str(e)",
                                  success |-> FALSE]

\* _parse_json_results: the four counters read from summary, one test case
\* per entry of tests with status = outcome
_parse_json_results(json_data) ==
    [total_tests   |-> json_data.summary.total,
     passed_tests  |-> json_data.summary.passed,
     failed_tests  |-> json_data.summary.failed,
     skipped_tests |-> json_data.summary.skipped,
     test_cases    |-> [i \in 1..Len(json_data.tests) |->
                           [status |-> json_data.tests[i]]]]

\* status of one <testcase>: failure, then error, then skipped child
XmlCaseStatus(o) ==
    CASE o = "failed"  -> "failed"
      [] o = "error"   -> "failed"
      [] o = "skipped" -> "skipped"
      [] OTHER         -> "passed"

\* _parse_xml_results on a well-formed file
_parse_xml_results(xml) ==
    [total_tests   |-> xml.tests,
     passed_tests  |-> xml.tests - xml.failures - xml.skipped,
     failed_tests  |-> xml.failures,
     skipped_tests |-> xml.skipped,
     test_cases    |-> [i \in 1..Len(xml.testcases) |->
                           [status |-> XmlCaseStatus(xml.testcases[i])]]]

\* dict.update restricted to the five keys both parsers return
Update(results, parsed) ==
    [results EXCEPT !.total_tests   = parsed.total_tests,
                    !.passed_tests  = parsed.passed_tests,
                    !.failed_tests  = parsed.failed_tests,
                    !.skipped_tests = parsed.skipped_tests,
                    !.test_cases    = parsed.test_cases]

EmptyResults ==
    [kind          |-> "test",
     success       |-> FALSE,
     error         |-> NoMsg,
     total_tests   |-> 0,
     passed_tests  |-> 0,
     failed_tests  |-> 0,
     skipped_tests |-> 0,
     test_cases    |-> <<>>,
     error_summary |-> NoMsg]

\* the same without the requirement of at least one test
ComputeSuccess_any_total(results) ==
    results.failed_tests = 0

\* success as computed at the end of _parse_test_results
ComputeSuccess(results) ==
    results.failed_tests = 0 /\ results.total_tests > 0

\* the same with the <testcase> elements of an unreadable XML file kept
_parse_test_results_keep_partial(tests, json_state, xml_state) ==
    LET r0 == EmptyResults
        r1 == IF json_state = "ok"
              THEN Update(r0, _parse_json_results(JsonReport(tests)))
              ELSE r0
        r2 == IF xml_state # "absent" /\ r1.test_cases = <<>>
              THEN Update(r1, _parse_xml_results(
                                XmlReport(tests, xml_state = "suite_root")))
              ELSE r1
    IN  [r2 EXCEPT !.success = ComputeSuccess(r2)]

\* _parse_test_results: JSON first, XML when no test case was read
_parse_test_results(tests, json_state, xml_state) ==
    LET r0 == EmptyResults
        r1 == IF json_state = "ok"
              THEN Update(r0, _parse_json_results(JsonReport(tests)))
              ELSE r0
        r2 == IF xml_state \in {"suite_root", "suites_root"}
                 /\ r1.test_cases = <<>>
              THEN Update(r1, _parse_xml_results(
                                XmlReport(tests, xml_state = "suite_root")))
              ELSE r1
    IN  [r2 EXCEPT !.success = ComputeSuccess(r2)]

\* the input of one run_tests call: how the subprocess ended, the tests it
\* ran and the report files it left.  A subprocess that was killed on the
\* timeout or never started has written no report
ExecInputs(n) ==
    {x \in [mode : RunModes, tests : SeqsUpTo(Outcomes, n),
            json : JsonStates, xml : XmlStates] :
        x.mode # "finished" =>
            (x.tests = <<>> /\ x.json = "absent" /\ x.xml = "absent")}

\* run_tests: the dict it returns
run_tests(x) ==
    IF x.mode = "setup_error"
    THEN [EmptyResults EXCEPT !.error = "str(e)"]
    ELSE LET test_results == _execute_pytest(x.mode)
         IN  _parse_test_results(x.tests, x.json, x.xml)

(* ============================ state ==================================== *)

VARIABLES
    active_sessions,   \* main.py:48  session id -> the dict stored under it
    session_dicts,     \* the dict objects created by start_testing
    containers,        \* containers known to the docker daemon
    next_id,           \* id the daemon gives to the next container
    task,              \* the background coroutines: position and locals
    running,           \* the coroutine that owns the event loop, or NoTask
    stops,             \* POST /test/stop requests served so far
    exec_in,           \* SpecExec: input of the run_tests call
    exec_out,          \* SpecExec: value returned by run_tests
    active_uat_sessions,    \* uat_manager.py:19  session id -> session record
    cloudflared_processes,  \* uat_manager.py:20  session id -> tunnel process
    processes,         \* tunnel processes that are alive
    stdout,            \* the unread line in the stdout pipe of each tunnel
    now,               \* datetime.now(), in minutes
    cleanup_tasks,     \* the _schedule_cleanup coroutines
    extends,           \* POST /uat/extend requests served so far
    price_in,          \* SpecPricing: arguments of the calculate_price calls
    price_out,         \* SpecPricing: the values calculate_price returned
    install_in,        \* SpecInstall: what the install_module call meets
    install_out        \* SpecInstall: value returned by install_module

priceVars == <<price_in, price_out>>

installVars == <<install_in, install_out>>

uatVars == <<active_uat_sessions, cloudflared_processes, processes, stdout,
             now, cleanup_tasks, extends>>

vars == <<active_sessions, session_dicts, containers, next_id, task, running,
          stops, exec_in, exec_out, priceVars, installVars, uatVars>>

NoResults == [kind |-> "none"]

\* a dict that no request has created yet
\* a timestamp key that was never written
NoTime == -1

NoDict ==
    [status |-> "absent", progress |-> 0, error |-> NoMsg,
     results |-> NoResults, stopped_at |-> NoTime, completed_at |-> FALSE]

\* main.py:72-79  the dict start_testing stores
NewDict == [NoDict EXCEPT !.status = "initializing"]

NoContainer == 0

IdleTask ==
    [pc |-> "none", kind |-> "none", session_id |-> 0,
     session |-> NoTask, postgres_container |-> NoContainer,
     odoo_container |-> NoContainer, polls |-> 0, exc |-> NoMsg,
     failure |-> "none", installation_result |-> NoResults,
     test_results |-> NoResults, process |-> NoTask, tunnel_url |-> FALSE,
     container_info |-> FALSE, test_script |-> FALSE]

NoExec == [mode |-> "none"]

\* no record under a session id in active_uat_sessions
NoUat == [status |-> "absent", expires_at |-> 0, tunnel |-> NoTask]

\* a _schedule_cleanup coroutine that was not created
NoCleanupTask == [pc |-> "none", session_id |-> 0, expires_at |-> 0]

InitCommon ==
    /\ active_sessions = [s \in SessionIds |-> NoTask]
    /\ session_dicts = [t \in Tasks |-> NoDict]
    /\ containers = {}
    /\ next_id = 1
    /\ task = [t \in Tasks |-> IdleTask]
    /\ running = NoTask
    /\ stops = 0
    /\ active_uat_sessions = [s \in SessionIds |-> NoUat]
    /\ cloudflared_processes = [s \in SessionIds |-> NoTask]
    /\ processes = {}
    /\ stdout = [t \in Tasks |-> "empty"]
    /\ now = 0
    /\ cleanup_tasks = [t \in Tasks |-> NoCleanupTask]
    /\ extends = 0

\* no calculate_price call is under way
NoPriceInput == [module_code |-> [is_dict |-> TRUE, files |-> <<>>],
                 specification |-> <<>>,
                 fix_attempts |-> [is_number |-> TRUE, value |-> 0]]

InitNoPricing ==
    /\ price_in = NoPriceInput
    /\ price_out = <<>>

\* no install_module call is under way
NoInstallInput ==
    [session_id |-> 0, exit_code |-> 0, logs |-> <<>>, raises |-> "none"]

InitNoInstall ==
    /\ install_in = NoInstallInput
    /\ install_out = NoResults

Init ==
    /\ InitCommon
    /\ InitNoPricing
    /\ InitNoInstall
    /\ exec_in = NoExec
    /\ exec_out = NoResults

(* ======================= docker_manager.py ============================= *)

ContainerKinds == {"postgres", "odoo"}

\* client.containers.get(f"omb-{kind}-{session_id}")
Named(cs, kind, sid) == {c \in cs : c.kind = kind /\ c.sid = sid}

LiveIds(cs) == {c.id : c \in cs}

\* existing.remove(force=True) after containers.get, NotFound ignored
RemoveExisting(cs, kind, sid) == cs \ Named(cs, kind, sid)

\* client.containers.run(..., name=...): the daemon refuses a name in use
DockerRun(cs, kind, sid, id) ==
    IF Named(cs, kind, sid) # {}
    THEN [ok |-> FALSE, containers |-> cs]
    ELSE [ok |-> TRUE,
          containers |-> cs \cup {[kind |-> kind, sid |-> sid, id |-> id]}]

\* the same without the removal of the existing container
_start_postgres_container_keep(cs, sid, id) ==
    DockerRun(cs, "postgres", sid, id)

_start_postgres_container(cs, sid, id) ==
    DockerRun(RemoveExisting(cs, "postgres", sid), "postgres", sid, id)

_start_odoo_container(cs, sid, id) ==
    DockerRun(RemoveExisting(cs, "odoo", sid), "odoo", sid, id)

\* cleanup_session: stop and remove the odoo and the postgres container
cleanup_session(cs, sid) ==
    RemoveExisting(RemoveExisting(cs, "odoo", sid), "postgres", sid)

\* the same with the exit status as the only criterion
install_module_exit_only(cs, sid, exit_code, critical, raises) ==
    IF Named(cs, "odoo", sid) = {} \/ raises
    THEN [kind |-> "install", success |-> FALSE, error_message |-> "str(e)"]
    ELSE LET success == exit_code = 0
         IN  [kind |-> "install", success |-> success,
              error_message |-> IF success THEN NoMsg
                                ELSE "Installation failed with exit code"]

\* install_module: the dict it returns
install_module(cs, sid, exit_code, critical, raises) ==
    IF Named(cs, "odoo", sid) = {} \/ raises
    THEN [kind |-> "install", success |-> FALSE, error_message |-> "str(e)"]
    ELSE LET success == exit_code = 0 /\ ~critical
         IN  [kind |-> "install", success |-> success,
              error_message |-> IF success THEN NoMsg
                                ELSE "Installation failed with exit code"]

(* ------------------------ coroutine plumbing --------------------------- *)

\* coroutine t may take a step: the loop is free or t owns it
Sched(t) == running \in {NoTask, t}

At(t, pc) == Sched(t) /\ task[t].pc = pc

SetTask(t, r) == task' = [task EXCEPT ![t] = r]

Sid(t) == task[t].session_id

SetDict(d, r) == session_dicts' = [session_dicts EXCEPT ![d] = r]

\* session[...] = ... of the pipeline: written to the dict the task holds
WriteStatus(t, status, progress) ==
    SetDict(task[t].session,
            [session_dicts[task[t].session] EXCEPT !.status = status,
                                                   !.progress = progress])

\* the coroutine has returned: its locals are gone
Returned(t) == [IdleTask EXCEPT !.pc = "done", !.kind = task[t].kind,
                                !.session_id = task[t].session_id,
                                !.session = task[t].session]

\* where an exception of setup_odoo_environment is caught by the caller
AfterSetupReturn(t) ==
    CASE task[t].kind = "test" -> "set_installing"
      [] task[t].kind = "uat"  -> "uat_install"
      [] OTHER                 -> "returned"
AfterSetupRaise(t) ==
    CASE task[t].kind = "test" -> "task_except"
      [] task[t].kind = "uat"  -> "uat_except"
      [] OTHER                 -> "raised"

(* =================== setup_odoo_environment ============================ *)

\* _download_and_extract_module returns or raises
Download(t) ==
    /\ At(t, "download")
    /\ \/ SetTask(t, [task[t] EXCEPT !.pc = "start_pg"])
       \/ SetTask(t, [task[t] EXCEPT !.pc = "setup_except",
                                     !.exc = "download failed",
                                     !.failure = "fetch"])
    /\ running' = t
    /\ UNCHANGED <<active_sessions, session_dicts, containers, next_id,
                   stops, exec_in, exec_out, priceVars,
                   installVars, uatVars>>

StartPostgres(t) ==
    /\ At(t, "start_pg")
    /\ LET r == _start_postgres_container(containers, Sid(t), next_id)
       IN  IF r.ok
           THEN /\ containers' = r.containers
                /\ next_id' = next_id + 1
                /\ SetTask(t, [task[t] EXCEPT !.pc = "wait_pg",
                                              !.postgres_container = next_id,
                                              !.polls = 0])
           ELSE /\ SetTask(t, [task[t] EXCEPT !.pc = "setup_except",
                                              !.exc = "conflict",
                                              !.failure = "db_start"])
                /\ UNCHANGED <<containers, next_id>>
    /\ running' = t
    /\ UNCHANGED <<active_sessions, session_dicts, stops, exec_in, exec_out, priceVars,
                   installVars, uatVars>>

\* the same with a probe that also answers for a removed container
WaitPostgres_no_probe(t) ==
    /\ At(t, "wait_pg")
    /\ \/ /\ SetTask(t, [task[t] EXCEPT !.pc = "start_odoo"])
          /\ running' = t
       \/ /\ task[t].polls < MaxPolls
          /\ SetTask(t, [task[t] EXCEPT !.polls = @ + 1])
          /\ running' = NoTask
       \/ /\ task[t].polls >= 1
          /\ SetTask(t, [task[t] EXCEPT !.pc = "setup_except",
                              !.exc = "PostgreSQL did not become ready in time",
                              !.failure = "db_ready"])
          /\ running' = t
    /\ UNCHANGED <<active_sessions, session_dicts, containers, next_id,
                   stops, exec_in, exec_out, priceVars,
                   installVars, uatVars>>

\* _wait_for_postgres: one probe; pg_isready answers 0, or the probe fails
\* and the loop sleeps, or the loop condition finds the timeout elapsed
WaitPostgres(t) ==
    /\ At(t, "wait_pg")
    /\ \/ /\ task[t].postgres_container \in LiveIds(containers)
          /\ SetTask(t, [task[t] EXCEPT !.pc = "start_odoo"])
          /\ running' = t
       \/ /\ task[t].polls < MaxPolls
          /\ SetTask(t, [task[t] EXCEPT !.polls = @ + 1])
          /\ running' = NoTask
       \/ /\ task[t].polls >= 1
          /\ SetTask(t, [task[t] EXCEPT !.pc = "setup_except",
                              !.exc = "PostgreSQL did not become ready in time",
                              !.failure = "db_ready"])
          /\ running' = t
    /\ UNCHANGED <<active_sessions, session_dicts, containers, next_id,
                   stops, exec_in, exec_out, priceVars,
                   installVars, uatVars>>

StartOdoo(t) ==
    /\ At(t, "start_odoo")
    /\ LET r == _start_odoo_container(containers, Sid(t), next_id)
       IN  IF r.ok
           THEN /\ containers' = r.containers
                /\ next_id' = next_id + 1
                /\ SetTask(t, [task[t] EXCEPT !.pc = "odoo_ports",
                                              !.odoo_container = next_id])
           ELSE /\ SetTask(t, [task[t] EXCEPT !.pc = "setup_except",
                                              !.exc = "conflict",
                                              !.failure = "app_start"])
                /\ UNCHANGED <<containers, next_id>>
    /\ running' = t
    /\ UNCHANGED <<active_sessions, session_dicts, stops, exec_in, exec_out, priceVars,
                   installVars, uatVars>>

\* _wait_for_odoo, before the loop: the port mapping is read; the first
\* health request is sent and the coroutine suspends
OdooPorts(t) ==
    /\ At(t, "odoo_ports")
    /\ \/ /\ SetTask(t, [task[t] EXCEPT !.pc = "wait_odoo", !.polls = 0])
          /\ running' = NoTask
       \/ /\ SetTask(t, [task[t] EXCEPT !.pc = "setup_except",
                                        !.exc = "Odoo port not mapped",
                                        !.failure = "app_start"])
          /\ running' = t
    /\ UNCHANGED <<active_sessions, session_dicts, containers, next_id,
                   stops, exec_in, exec_out, priceVars,
                   installVars, uatVars>>

\* _wait_for_odoo, the loop: /web/health answers 200, or it does not and the
\* loop sleeps, or the loop condition finds the timeout elapsed
WaitOdoo(t) ==
    /\ At(t, "wait_odoo")
    /\ \/ /\ task[t].odoo_container \in LiveIds(containers)
          /\ SetTask(t, [task[t] EXCEPT !.pc = AfterSetupReturn(t),
                                        !.container_info = TRUE])
          /\ running' = t
       \/ /\ task[t].polls < MaxPolls
          /\ SetTask(t, [task[t] EXCEPT !.polls = @ + 1])
          /\ running' = NoTask
       \/ /\ task[t].polls >= 1
          /\ SetTask(t, [task[t] EXCEPT !.pc = "setup_except",
                              !.exc = "Odoo did not become ready in time",
                              !.failure = "app_ready"])
          /\ running' = t
    /\ UNCHANGED <<active_sessions, session_dicts, containers, next_id,
                   stops, exec_in, exec_out, priceVars,
                   installVars, uatVars>>

\* docker_manager.py:78-81  except: cleanup_session, raise
SetupExcept(t) ==
    /\ At(t, "setup_except")
    /\ containers' = cleanup_session(containers, Sid(t))
    /\ SetTask(t, [task[t] EXCEPT !.pc = AfterSetupRaise(t)])
    /\ running' = t
    /\ UNCHANGED <<active_sessions, session_dicts, next_id, stops,
                   exec_in, exec_out, priceVars,
                   installVars, uatVars>>

Provision(t) ==
    \/ Download(t) \/ StartPostgres(t) \/ WaitPostgres(t) \/ StartOdoo(t)
    \/ OdooPorts(t) \/ WaitOdoo(t) \/ SetupExcept(t)

(* ============================ main.py ================================== *)

\* lowest request slot not yet used
FreeTask(t) == task[t].pc = "none" /\ \A u \in Tasks : u < t => task[u].pc # "none"

\* the ids the next request can draw: one drawn before (same project, same
\* second) or the first id not drawn so far
UsedIds == {task[u].session_id : u \in {v \in Tasks : task[v].pc # "none"}}
GeneratedIds == {s \in SessionIds : s <= Cardinality(UsedIds) + 1}

\* POST /test/start: a new dict is stored under the generated id and the
\* background task is queued
start_testing(t, sid) ==
    /\ running = NoTask
    /\ FreeTask(t)
    /\ sid \in GeneratedIds
    /\ active_sessions' = [active_sessions EXCEPT ![sid] = t]
    /\ SetDict(t, NewDict)
    /\ SetTask(t, [IdleTask EXCEPT !.pc = "queued", !.kind = "test",
                                   !.session_id = sid])
    /\ UNCHANGED <<containers, next_id, running, stops, exec_in, exec_out, priceVars,
                   installVars, uatVars>>

\* POST /test/stop/{session_id} for a known id
stop_testing(sid) ==
    /\ running = NoTask
    /\ stops < MaxStops
    /\ active_sessions[sid] # NoTask
    /\ containers' = cleanup_session(containers, sid)
    /\ SetDict(active_sessions[sid],
               [session_dicts[active_sessions[sid]]
                    EXCEPT !.status = "stopped", !.stopped_at = now])
    /\ stops' = stops + 1
    /\ UNCHANGED <<active_sessions, next_id, task, running, exec_in, exec_out, priceVars,
                   installVars, uatVars>>

\* GET /test/results/{session_id}, main.py:115-126: the response, with the
\* HTTP status and the body
get_test_results(sid) ==
    IF active_sessions[sid] = NoTask
    THEN [status_code |-> 404, body |-> NoResults]
    ELSE LET session == session_dicts[active_sessions[sid]]
         IN  IF session.status \notin {"completed", "failed"}
             THEN [status_code |-> 400, body |-> NoResults]
             ELSE [status_code |-> 200, body |-> session.results]

\* run_automated_testing, main.py:150-160: the dict is looked up, the first
\* status is written and the download suspends the coroutine
Begin(t) ==
    /\ At(t, "queued")
    /\ task[t].kind = "test"
    /\ LET d == active_sessions[Sid(t)]
       IN  /\ SetTask(t, [task[t] EXCEPT !.pc = "download", !.session = d])
           /\ SetDict(d, [session_dicts[d]
                             EXCEPT !.status = "preparing_environment",
                                    !.progress = 10])
    /\ running' = NoTask
    /\ UNCHANGED <<active_sessions, containers, next_id, stops,
                   exec_in, exec_out, priceVars,
                   installVars, uatVars>>

\* main.py:167-169
SetInstalling(t) ==
    /\ At(t, "set_installing")
    /\ WriteStatus(t, "installing_module", 30)
    /\ SetTask(t, [task[t] EXCEPT !.pc = "install"])
    /\ running' = t
    /\ UNCHANGED <<active_sessions, containers, next_id, stops,
                   exec_in, exec_out, priceVars,
                   installVars, uatVars>>

\* main.py:171-174
Install(t) ==
    /\ At(t, "install")
    /\ \E exit_code \in {0, 1}, critical \in BOOLEAN, raises \in BOOLEAN :
          SetTask(t, [task[t] EXCEPT
              !.pc = "install_check",
              !.installation_result =
                  install_module(containers, Sid(t), exit_code, critical,
                                 raises)])
    /\ running' = t
    /\ UNCHANGED <<active_sessions, session_dicts, containers, next_id,
                   stops, exec_in, exec_out, priceVars,
                   installVars, uatVars>>

\* main.py:176-180  installation failed: failed, error, results, return
InstallFailed(t) ==
    /\ At(t, "install_check")
    /\ ~task[t].installation_result.success
    /\ SetDict(task[t].session,
               [session_dicts[task[t].session]
                    EXCEPT !.status = "failed",
                           !.error = "Module installation failed",
                           !.results = task[t].installation_result])
    /\ SetTask(t, Returned(t))
    /\ running' = NoTask
    /\ UNCHANGED <<active_sessions, containers, next_id, stops,
                   exec_in, exec_out, priceVars,
                   installVars, uatVars>>

\* the same without the test of installation_result["success"]
SetGenerating_unchecked(t) ==
    /\ At(t, "install_check")
    /\ WriteStatus(t, "generating_tests", 50)
    /\ SetTask(t, [task[t] EXCEPT !.pc = "generate"])
    /\ running' = t
    /\ UNCHANGED <<active_sessions, containers, next_id, stops,
                   exec_in, exec_out, priceVars,
                   installVars, uatVars>>

\* main.py:183-185
SetGenerating(t) ==
    /\ At(t, "install_check")
    /\ task[t].installation_result.success
    /\ WriteStatus(t, "generating_tests", 50)
    /\ SetTask(t, [task[t] EXCEPT !.pc = "generate"])
    /\ running' = t
    /\ UNCHANGED <<active_sessions, containers, next_id, stops,
                   exec_in, exec_out, priceVars,
                   installVars, uatVars>>

\* main.py:187-191  generate_test_script returns a script or raises
Generate(t) ==
    /\ At(t, "generate")
    /\ \/ SetTask(t, [task[t] EXCEPT !.pc = "set_running",
                                     !.test_script = TRUE])
       \/ SetTask(t, [task[t] EXCEPT !.pc = "task_except",
                                     !.exc = "Test generation failed",
                                     !.failure = "synthesis"])
    /\ running' = t
    /\ UNCHANGED <<active_sessions, session_dicts, containers, next_id,
                   stops, exec_in, exec_out, priceVars,
                   installVars, uatVars>>

\* main.py:194-196
SetRunning(t) ==
    /\ At(t, "set_running")
    /\ WriteStatus(t, "running_tests", 70)
    /\ SetTask(t, [task[t] EXCEPT !.pc = "run_tests"])
    /\ running' = t
    /\ UNCHANGED <<active_sessions, containers, next_id, stops,
                   exec_in, exec_out, priceVars,
                   installVars, uatVars>>

\* main.py:198-202
RunTests(t) ==
    /\ At(t, "run_tests")
    /\ \E x \in ExecInputs(MaxSessionTests) :
          SetTask(t, [task[t] EXCEPT
              !.pc = "set_processing",
              !.test_results = run_tests(x),
              !.failure = IF x.mode = "finished" THEN @ ELSE "execution"])
    /\ running' = t
    /\ UNCHANGED <<active_sessions, session_dicts, containers, next_id,
                   stops, exec_in, exec_out, priceVars,
                   installVars, uatVars>>

\* main.py:205-207
SetProcessing(t) ==
    /\ At(t, "set_processing")
    /\ WriteStatus(t, "processing_results", 90)
    /\ SetTask(t, [task[t] EXCEPT !.pc = "cleanup"])
    /\ running' = t
    /\ UNCHANGED <<active_sessions, containers, next_id, stops,
                   exec_in, exec_out, priceVars,
                   installVars, uatVars>>

\* main.py:210
Cleanup(t) ==
    /\ At(t, "cleanup")
    /\ containers' = cleanup_session(containers, Sid(t))
    /\ SetTask(t, [task[t] EXCEPT !.pc = "finalize"])
    /\ running' = t
    /\ UNCHANGED <<active_sessions, session_dicts, next_id, stops,
                   exec_in, exec_out, priceVars,
                   installVars, uatVars>>

\* main.py:213-217
Finalize(t) ==
    /\ At(t, "finalize")
    /\ SetDict(task[t].session,
               [session_dicts[task[t].session]
                    EXCEPT !.status = IF task[t].test_results.success
                                      THEN "completed" ELSE "failed",
                           !.progress = 100,
                           !.results = task[t].test_results,
                           !.completed_at = TRUE])
    /\ SetTask(t, Returned(t))
    /\ running' = NoTask
    /\ UNCHANGED <<active_sessions, containers, next_id, stops,
                   exec_in, exec_out, priceVars,
                   installVars, uatVars>>

\* main.py:221-225  except: failed, error, completed_at
TaskExcept(t) ==
    /\ At(t, "task_except")
    /\ SetDict(task[t].session,
               [session_dicts[task[t].session]
                    EXCEPT !.status = "failed",
                           !.error = task[t].exc,
                           !.completed_at = TRUE])
    /\ SetTask(t, [task[t] EXCEPT !.pc = "except_cleanup"])
    /\ running' = t
    /\ UNCHANGED <<active_sessions, containers, next_id, stops,
                   exec_in, exec_out, priceVars,
                   installVars, uatVars>>

\* main.py:228-231
ExceptCleanup(t) ==
    /\ At(t, "except_cleanup")
    /\ containers' = cleanup_session(containers, Sid(t))
    /\ SetTask(t, Returned(t))
    /\ running' = NoTask
    /\ UNCHANGED <<active_sessions, session_dicts, next_id, stops,
                   exec_in, exec_out, priceVars,
                   installVars, uatVars>>

run_automated_testing(t) ==
    \/ Begin(t) \/ Provision(t) \/ SetInstalling(t) \/ Install(t)
    \/ InstallFailed(t) \/ SetGenerating(t) \/ Generate(t) \/ SetRunning(t)
    \/ RunTests(t) \/ SetProcessing(t) \/ Cleanup(t) \/ Finalize(t)
    \/ TaskExcept(t) \/ ExceptCleanup(t)

Next ==
    \/ \E t \in Tasks, sid \in SessionIds : start_testing(t, sid)
    \/ \E sid \in SessionIds : stop_testing(sid)
    \/ \E t \in Tasks : run_automated_testing(t)

Spec == Init /\ [][Next]_vars

(* ------ SpecProvision: concurrent calls of setup_odoo_environment ------ *)

\* a caller awaits setup_odoo_environment(session_id, ...): the call runs up
\* to the download, where it suspends
call_setup_odoo_environment(t, sid) ==
    /\ running = NoTask
    /\ FreeTask(t)
    /\ sid \in GeneratedIds
    /\ SetTask(t, [IdleTask EXCEPT !.pc = "download", !.kind = "setup",
                                   !.session_id = sid])
    /\ UNCHANGED <<containers, next_id, running, stops, active_sessions,
                   session_dicts, exec_in, exec_out, priceVars,
                   installVars, uatVars>>

\* the steps of such a call
SetupCall(t) ==
    /\ task[t].kind = "setup"
    /\ Provision(t)

\* control is back at the caller, with the environment or the exception
SetupCompletes(t) ==
    /\ At(t, "returned") \/ At(t, "raised")
    /\ SetTask(t, [task[t] EXCEPT !.pc = "done"])
    /\ running' = NoTask
    /\ UNCHANGED <<containers, next_id, stops, active_sessions,
                   session_dicts, exec_in, exec_out, priceVars,
                   installVars, uatVars>>

\* another coroutine awaits cleanup_session(session_id), as stop_testing and
\* cleanup_uat_session do
call_cleanup_session(sid) ==
    /\ running = NoTask
    /\ stops < MaxStops
    /\ containers' = cleanup_session(containers, sid)
    /\ stops' = stops + 1
    /\ UNCHANGED <<next_id, task, running, active_sessions, session_dicts,
                   exec_in, exec_out, priceVars,
                   installVars, uatVars>>

NextProvision ==
    \/ \E t \in Tasks, sid \in SessionIds : call_setup_odoo_environment(t, sid)
    \/ \E t \in Tasks : SetupCall(t)
    \/ \E t \in Tasks : SetupCompletes(t)
    \/ \E sid \in SessionIds : call_cleanup_session(sid)

SpecProvision == Init /\ [][NextProvision]_vars

(* ----------- SpecInstall: install_module applied to every input -------- *)

\* the output of the install command, as the words of its log lines
InstallLogs ==
    { <<>>, <<"INFO">>, <<"INFO", "WARNING">>, <<"INFO", "CRITICAL">>,
      <<"CRITICAL">>, <<"ERROR">> }

\* exit statuses of the install command
ExitCodes == {0, 1, 2, 137}

\* what can raise inside install_module: nothing, container.exec_run, or
\* output.decode
InstallRaises == {"none", "exec_run", "decode"}

\* "CRITICAL" in logs
ContainsCritical(logs) == \E i \in 1..Len(logs) : logs[i] = "CRITICAL"

\* the containers the docker daemon may hold when install_module is called
InstallContainers ==
    SUBSET {[kind |-> k, sid |-> s, id |-> s] :
                k \in {"odoo"}, s \in SessionIds}

InitInstall ==
    /\ active_sessions = [s \in SessionIds |-> NoTask]
    /\ session_dicts = [t \in Tasks |-> NoDict]
    /\ containers \in InstallContainers
    /\ next_id = 1
    /\ task = [t \in Tasks |-> IdleTask]
    /\ running = NoTask
    /\ stops = 0
    /\ active_uat_sessions = [s \in SessionIds |-> NoUat]
    /\ cloudflared_processes = [s \in SessionIds |-> NoTask]
    /\ processes = {}
    /\ stdout = [t \in Tasks |-> "empty"]
    /\ now = 0
    /\ cleanup_tasks = [t \in Tasks |-> NoCleanupTask]
    /\ extends = 0
    /\ InitNoPricing
    /\ exec_in = NoExec
    /\ exec_out = NoResults
    /\ install_in \in [session_id : SessionIds, exit_code : ExitCodes,
                       logs : InstallLogs, raises : InstallRaises]
    /\ install_out = NoResults

\* await docker_manager.install_module(session_id, module_name)
CallInstallModule ==
    /\ install_out = NoResults
    /\ install_out' =
          install_module(containers, install_in.session_id,
                         install_in.exit_code,
                         ContainsCritical(install_in.logs),
                         install_in.raises # "none")
    /\ UNCHANGED <<active_sessions, session_dicts, containers, next_id, task,
                   running, stops, exec_in, exec_out, priceVars, install_in,
                   uatVars>>

NextInstall == CallInstallModule

SpecInstall == InitInstall /\ [][NextInstall]_vars

(* ------------- SpecExec: run_tests applied to every input -------------- *)

InitExec ==
    /\ InitCommon
    /\ InitNoPricing
    /\ InitNoInstall
    /\ exec_in \in ExecInputs(MaxTests)
    /\ exec_out = NoResults

CallRunTests ==
    /\ exec_out = NoResults
    /\ exec_out' = run_tests(exec_in)
    /\ UNCHANGED <<active_sessions, session_dicts, containers, next_id, task,
                   running, stops, exec_in, priceVars, installVars, uatVars>>

NextExec == CallRunTests

SpecExec == InitExec /\ [][NextExec]_vars

(* ========================= uat_manager.py ============================== *)

\* additional bounds of the acceptance-session specification
\* POST /uat/extend requests in one behaviour
MaxExtends == 1
\* sleeps of the tunnel URL wait before its 30 s timeout must fire
MaxTunnelPolls == 2
\* last value of the clock, in minutes
MaxNow == 90
\* minutes between two readings of the clock
ClockStep == 30

\* timedelta(hours=1)
UatSessionMinutes == 60

\* values of the query parameter additional_minutes (an int, default 30)
AdditionalMinutes == {-30, 0, 30}

testVars == <<active_sessions, session_dicts, exec_in, exec_out, priceVars,
              installVars>>

TunnelPcs == {"tunnel_loop", "tunnel_readline"}

\* cleanup_uat_session, uat_manager.py:187-194: the recorded tunnel process
\* is terminated and forgotten
StopTunnel(procs, sid) == procs \ {cloudflared_processes[sid]}

\* cleanup_uat_session: tunnel process, containers, registry entry
cleanup_uat_session(sid) ==
    /\ processes' = StopTunnel(processes, sid)
    /\ cloudflared_processes' = [cloudflared_processes EXCEPT ![sid] = NoTask]
    /\ containers' = cleanup_session(containers, sid)
    /\ active_uat_sessions' = [active_uat_sessions EXCEPT ![sid] = NoUat]

\* POST /uat/start: only the background task is queued
start_uat_session(t, sid) ==
    /\ running = NoTask
    /\ FreeTask(t)
    /\ sid \in GeneratedIds
    /\ SetTask(t, [IdleTask EXCEPT !.pc = "queued", !.kind = "uat",
                                   !.session_id = sid])
    /\ UNCHANGED <<containers, next_id, running, stops, testVars, uatVars>>

\* setup_uat_environment, create_uat_session up to the download
UatBegin(t) ==
    /\ At(t, "queued")
    /\ task[t].kind = "uat"
    /\ SetTask(t, [task[t] EXCEPT !.pc = "download"])
    /\ running' = NoTask
    /\ UNCHANGED <<containers, next_id, stops, testVars, uatVars>>

\* uat_manager.py:36-43  install_module; on failure cleanup_session, raise
UatInstall(t) ==
    /\ At(t, "uat_install")
    /\ \E exit_code \in {0, 1}, critical \in BOOLEAN, raises \in BOOLEAN :
          LET r == install_module(containers, Sid(t), exit_code, critical,
                                  raises)
          IN  IF r.success
              THEN /\ SetTask(t, [task[t] EXCEPT !.pc = "tunnel_popen"])
                   /\ UNCHANGED containers
              ELSE /\ SetTask(t, [task[t] EXCEPT
                          !.pc = "uat_except",
                          !.exc = "Module installation failed",
                          !.failure = "install"])
                   /\ containers' = cleanup_session(containers, Sid(t))
    /\ running' = t
    /\ UNCHANGED <<next_id, stops, testVars, uatVars>>

\* _create_cloudflare_tunnel, uat_manager.py:97-107: Popen starts the
\* process, or raises
TunnelPopen(t) ==
    /\ At(t, "tunnel_popen")
    /\ \/ /\ processes' = processes \cup {t}
          /\ stdout' = [stdout EXCEPT ![t] = "empty"]
          /\ SetTask(t, [task[t] EXCEPT !.pc = "tunnel_loop", !.process = t,
                                        !.polls = 0])
       \/ /\ SetTask(t, [task[t] EXCEPT !.pc = "uat_except",
                                        !.exc = "Popen failed",
                                        !.failure = "tunnel"])
          /\ UNCHANGED <<processes, stdout>>
    /\ running' = t
    /\ UNCHANGED <<containers, next_id, stops, testVars, active_uat_sessions,
                   cloudflared_processes, now, cleanup_tasks, extends>>

\* uat_manager.py:109-113  the loop condition, then process.poll()
TunnelLoop(t) ==
    /\ At(t, "tunnel_loop")
    /\ \/ /\ task[t].polls < MaxTunnelPolls
          /\ IF task[t].process \in processes
             THEN SetTask(t, [task[t] EXCEPT !.pc = "tunnel_readline"])
             ELSE SetTask(t, [task[t] EXCEPT
                      !.pc = "uat_except",
                      !.exc = "Cloudflared process failed",
                      !.failure = "tunnel"])
       \/ /\ task[t].polls >= 1
          /\ SetTask(t, [task[t] EXCEPT !.pc = "tunnel_no_url"])
    /\ running' = t
    /\ UNCHANGED <<containers, next_id, stops, testVars, uatVars>>

\* uat_manager.py:116-130  process.stdout.readline() returns when the pipe
\* holds a line or is at end of file; until then the call does not return
TunnelReadline(t) ==
    /\ At(t, "tunnel_readline")
    /\ \/ /\ stdout[t] = "url"
          /\ SetTask(t, [task[t] EXCEPT !.pc = "tunnel_store",
                                        !.tunnel_url = TRUE])
          /\ running' = t
       \/ /\ \/ stdout[t] = "other"
             \/ stdout[t] = "empty" /\ task[t].process \notin processes
          /\ SetTask(t, [task[t] EXCEPT !.pc = "tunnel_loop",
                                        !.polls = @ + 1])
          /\ running' = NoTask
    /\ stdout' = [stdout EXCEPT ![t] = "empty"]
    /\ UNCHANGED <<containers, next_id, stops, testVars, active_uat_sessions,
                   cloudflared_processes, processes, now, cleanup_tasks,
                   extends>>

\* uat_manager.py:132-134  no URL: process.terminate(), raise
TunnelNoUrl(t) ==
    /\ At(t, "tunnel_no_url")
    /\ processes' = processes \ {task[t].process}
    /\ SetTask(t, [task[t] EXCEPT
           !.pc = "uat_except",
           !.exc = "Failed to create Cloudflare tunnel - no URL received",
           !.failure = "tunnel"])
    /\ running' = t
    /\ UNCHANGED <<containers, next_id, stops, testVars, active_uat_sessions,
                   cloudflared_processes, stdout, now, cleanup_tasks, extends>>

\* uat_manager.py:137
TunnelStore(t) ==
    /\ At(t, "tunnel_store")
    /\ cloudflared_processes' =
          [cloudflared_processes EXCEPT ![Sid(t)] = task[t].process]
    /\ SetTask(t, [task[t] EXCEPT !.pc = "uat_record"])
    /\ running' = t
    /\ UNCHANGED <<containers, next_id, stops, testVars, active_uat_sessions,
                   processes, stdout, now, cleanup_tasks, extends>>

\* uat_manager.py:48-69  the session record is stored and the cleanup task
\* is created
UatRecord(t) ==
    /\ At(t, "uat_record")
    /\ LET expires_at == now + UatSessionMinutes
       IN  /\ active_uat_sessions' =
                 [active_uat_sessions EXCEPT ![Sid(t)] =
                     [status |-> "active", expires_at |-> expires_at,
                      tunnel |-> task[t].process]]
           /\ cleanup_tasks' =
                 [cleanup_tasks EXCEPT ![t] =
                     [pc |-> "created", session_id |-> Sid(t),
                      expires_at |-> expires_at]]
    /\ SetTask(t, Returned(t))
    /\ running' = NoTask
    /\ UNCHANGED <<containers, next_id, stops, testVars,
                   cloudflared_processes, processes, stdout, now, extends>>

\* uat_manager.py:71-74  except: cleanup_uat_session, raise
UatExcept(t) ==
    /\ At(t, "uat_except")
    /\ cleanup_uat_session(Sid(t))
    /\ SetTask(t, [task[t] EXCEPT !.pc = "uat_setup_except"])
    /\ running' = t
    /\ UNCHANGED <<next_id, stops, testVars, stdout, now, cleanup_tasks,
                   extends>>

\* main.py:371-377  except in setup_uat_environment: cleanup_uat_session
UatSetupExcept(t) ==
    /\ At(t, "uat_setup_except")
    /\ cleanup_uat_session(Sid(t))
    /\ SetTask(t, [Returned(t) EXCEPT !.failure = task[t].failure])
    /\ running' = NoTask
    /\ UNCHANGED <<next_id, stops, testVars, stdout, now, cleanup_tasks,
                   extends>>

\* the provisioning steps of an acceptance session
UatProvision(t) ==
    /\ task[t].kind = "uat"
    /\ Provision(t)

create_uat_session(t) ==
    \/ UatBegin(t) \/ UatProvision(t) \/ UatInstall(t) \/ TunnelPopen(t)
    \/ TunnelLoop(t) \/ TunnelReadline(t) \/ TunnelNoUrl(t) \/ TunnelStore(t)
    \/ UatRecord(t) \/ UatExcept(t) \/ UatSetupExcept(t)

\* the tunnel process writes a line to its stdout while the manager waits
TunnelPrints(t) ==
    /\ t \in processes
    /\ task[t].pc \in TunnelPcs
    /\ stdout[t] = "empty"
    /\ \E line \in {"url", "other"} : stdout' = [stdout EXCEPT ![t] = line]
    /\ UNCHANGED <<containers, next_id, task, running, stops, testVars,
                   active_uat_sessions, cloudflared_processes, processes, now,
                   cleanup_tasks, extends>>

\* the tunnel process exits by itself while the manager waits
TunnelExits(t) ==
    /\ t \in processes
    /\ task[t].pc \in TunnelPcs
    /\ processes' = processes \ {t}
    /\ UNCHANGED <<containers, next_id, task, running, stops, testVars,
                   active_uat_sessions, cloudflared_processes, stdout, now,
                   cleanup_tasks, extends>>

\* extend_uat_session, uat_manager.py:168-179, for a session in the registry
extend_uat_session(sid, additional_minutes) ==
    /\ running = NoTask
    /\ extends < MaxExtends
    /\ active_uat_sessions[sid] # NoUat
    /\ active_uat_sessions' =
          [active_uat_sessions EXCEPT
              ![sid].expires_at = @ + additional_minutes]
    /\ extends' = extends + 1
    /\ UNCHANGED <<containers, next_id, task, running, stops, testVars,
                   cloudflared_processes, processes, stdout, now,
                   cleanup_tasks>>

\* GET /uat/session/{session_id}, uat_manager.py:150-161: a registered
\* session whose expiry has passed is cleaned up; otherwise only
\* last_activity is written
get_uat_session(sid) ==
    /\ running = NoTask
    /\ IF /\ active_uat_sessions[sid] # NoUat
          /\ now > active_uat_sessions[sid].expires_at
       THEN cleanup_uat_session(sid)
       ELSE UNCHANGED <<containers, active_uat_sessions,
                        cloudflared_processes, processes>>
    /\ UNCHANGED <<next_id, task, running, stops, testVars, stdout, now,
                   cleanup_tasks, extends>>

\* list_active_sessions, uat_manager.py:225-239: the ids it reports
list_active_sessions ==
    {sid \in SessionIds : /\ active_uat_sessions[sid] # NoUat
                          /\ now <= active_uat_sessions[sid].expires_at}

\* POST /uat/stop/{session_id}
stop_uat_session(sid) ==
    /\ running = NoTask
    /\ stops < MaxStops
    /\ cleanup_uat_session(sid)
    /\ stops' = stops + 1
    /\ UNCHANGED <<next_id, task, running, testVars, stdout, now,
                   cleanup_tasks, extends>>

\* _schedule_cleanup, uat_manager.py:213-215: sleep until expires_at
ScheduleSleep(t) ==
    /\ running = NoTask
    /\ cleanup_tasks[t].pc = "created"
    /\ cleanup_tasks' = [cleanup_tasks EXCEPT ![t].pc = "sleeping"]
    /\ UNCHANGED <<containers, next_id, task, running, stops, testVars,
                   active_uat_sessions, cloudflared_processes, processes,
                   stdout, now, extends>>

\* _schedule_cleanup, uat_manager.py:217-220: after the sleep the session is
\* cleaned up when it is still registered and its expiry is due
ScheduleWake(t) ==
    /\ running = NoTask
    /\ cleanup_tasks[t].pc = "sleeping"
    /\ now >= cleanup_tasks[t].expires_at
    /\ LET sid == cleanup_tasks[t].session_id
       IN  IF /\ active_uat_sessions[sid] # NoUat
              /\ now >= active_uat_sessions[sid].expires_at
           THEN cleanup_uat_session(sid)
           ELSE UNCHANGED <<containers, active_uat_sessions,
                            cloudflared_processes, processes>>
    /\ cleanup_tasks' = [cleanup_tasks EXCEPT ![t] =
                            [NoCleanupTask EXCEPT !.pc = "done"]]
    /\ UNCHANGED <<next_id, task, running, stops, testVars, stdout, now,
                   extends>>

_schedule_cleanup(t) == ScheduleSleep(t) \/ ScheduleWake(t)

\* time passes between two segments of the event loop
Tick ==
    /\ running = NoTask
    /\ now + ClockStep <= MaxNow
    /\ now' = now + ClockStep
    /\ UNCHANGED <<containers, next_id, task, running, stops, testVars,
                   active_uat_sessions, cloudflared_processes, processes,
                   stdout, cleanup_tasks, extends>>

NextUat ==
    \/ \E t \in Tasks, sid \in SessionIds : start_uat_session(t, sid)
    \/ \E t \in Tasks : create_uat_session(t)
    \/ \E t \in Tasks : TunnelPrints(t)
    \/ \E t \in Tasks : TunnelExits(t)
    \/ \E sid \in SessionIds, m \in AdditionalMinutes :
          extend_uat_session(sid, m)
    \/ \E sid \in SessionIds : get_uat_session(sid)
    \/ \E sid \in SessionIds : stop_uat_session(sid)
    \/ \E t \in Tasks : _schedule_cleanup(t)
    \/ Tick

SpecUat == Init /\ [][NextUat]_vars

(* ======================== pricing_service.py =========================== *)

\* files of one code bundle
MaxFiles == 2
\* calculate_price calls on one input
MaxCalls == 2

\* pricing_service.py:14-15
base_price == 50
max_price == 100

\* a file of the bundle, by what the analysis reads from it: the extension
\* and the directory word of its path, whether the content is a str and
\* whether it is empty, the number of code lines and the numbers of matches
\* of the regular expressions
PlainFile ==
    [ext |-> "other", dir |-> "other", is_str |-> TRUE, empty |-> FALSE,
     code_lines |-> 10, models |-> 0, has_route |-> FALSE, routes |-> 0,
     transient |-> FALSE, access_records |-> 0, view_elements |-> 0,
     report_templates |-> 0, records |-> 0]

PricingFiles ==
    { [PlainFile EXCEPT !.ext = "py", !.models = 6, !.has_route = TRUE,
                        !.routes = 4, !.transient = TRUE,
                        !.code_lines = 1600],
      [PlainFile EXCEPT !.ext = "py", !.has_route = TRUE, !.routes = 1],
      [PlainFile EXCEPT !.ext = "py", !.models = 1, !.code_lines = 40],
      [PlainFile EXCEPT !.ext = "xml", !.dir = "views", !.view_elements = 7,
                        !.records = 2, !.code_lines = 30],
      [PlainFile EXCEPT !.ext = "xml", !.dir = "security",
                        !.access_records = 2, !.records = 2],
      [PlainFile EXCEPT !.ext = "xml", !.dir = "report",
                        !.report_templates = 1],
      [PlainFile EXCEPT !.ext = "csv", !.code_lines = 5],
      [PlainFile EXCEPT !.ext = "js", !.code_lines = 120],
      [PlainFile EXCEPT !.empty = TRUE, !.code_lines = 0],
      [PlainFile EXCEPT !.is_str = FALSE] }

\* the dicts of at most n files (keys are unique), and a value that is not a
\* dict
FileSeqs(n) ==
    UNION {{q \in [1..k -> PricingFiles] :
               \A i, j \in 1..k : i # j => q[i] # q[j]} : k \in 0..n}

ModuleCodes(n) ==
    {[is_dict |-> TRUE, files |-> q] : q \in FileSeqs(n)}
        \cup {[is_dict |-> FALSE, files |-> <<>>]}

\* a specification text, by the number of occurrences of each complexity
\* keyword it contains
Specifications ==
    { <<>>, <<1>>, <<2, 2>>, <<7>>, <<5, 5, 5, 5, 5, 5>> }

\* values of fix_attempts: integers, and a JSON value that is not a number
FixAttempts ==
    [is_number : {TRUE}, value : {-60, -1, 0, 3, 8}]
        \cup {[is_number |-> FALSE, value |-> 0]}

PriceInputs(n) ==
    [module_code : ModuleCodes(n), specification : Specifications,
     fix_attempts : FixAttempts]

Min(a, b) == IF a <= b THEN a ELSE b
Max(a, b) == IF a >= b THEN a ELSE b

\* int(x) of a quotient: truncation toward zero
IntOf(num, den) == IF num >= 0 THEN num \div den ELSE -((-num) \div den)

\* round(x) of a quotient: to the nearest integer, ties to the even one
RoundOf(num, den) ==
    LET q == num \div den
        r == num % den
    IN  IF 2 * r < den THEN q
        ELSE IF 2 * r > den THEN q + 1
        ELSE IF q % 2 = 0 THEN q ELSE q + 1

\* pricing_service.py:84-96
EmptyAnalysis ==
    [lines_of_code |-> 0, python_models |-> 0, xml_views |-> 0,
     security_rules |-> 0, data_files |-> 0, javascript_files |-> 0,
     css_files |-> 0, report_files |-> 0, wizard_files |-> 0,
     api_controllers |-> 0, workflow_complexity |-> 0]

\* dict.update
DictUpdate(a, d) ==
    [k \in DOMAIN a \cup DOMAIN d |-> IF k \in DOMAIN d THEN d[k] ELSE a[k]]

\* the dict with the keys in ks of d
Restrict(d, ks) == [k \in ks |-> d[k]]

\* pricing_service.py:133-157: python_models is always set, api_controllers
\* and wizard_files only when their marker occurs in the content
_analyze_python_file(f) ==
    Restrict([python_models |-> f.models, api_controllers |-> f.routes,
              wizard_files |-> 1],
             {"python_models"}
                 \cup (IF f.has_route THEN {"api_controllers"} ELSE {})
                 \cup (IF f.transient THEN {"wizard_files"} ELSE {}))

\* pricing_service.py:159-185
_analyze_xml_file(f) ==
    Restrict([security_rules |-> f.access_records,
              xml_views |-> f.view_elements,
              report_files |-> f.report_templates, data_files |-> 1],
             (CASE f.dir = "security" -> {"security_rules"}
                [] f.dir = "views"    -> {"xml_views"}
                [] f.dir = "report"   -> {"report_files"}
                [] OTHER              -> {})
                 \cup (IF f.records > 0 THEN {"data_files"} ELSE {}))

\* pricing_service.py:98-123: one iteration of the loop over the files
AnalyzeFile(analysis, f) ==
    IF f.empty THEN analysis
    ELSE LET a == [analysis EXCEPT !.lines_of_code = @ + f.code_lines]
         IN  CASE f.ext = "py"  -> DictUpdate(a, _analyze_python_file(f))
               [] f.ext = "xml" -> DictUpdate(a, _analyze_xml_file(f))
               [] f.ext = "js"  -> [a EXCEPT !.javascript_files = @ + 1]
               [] f.ext = "css" -> [a EXCEPT !.css_files = @ + 1]
               [] f.ext = "csv" -> [a EXCEPT !.data_files = @ + 1]
               [] OTHER         -> a

RECURSIVE AnalyzeFiles(_, _)
AnalyzeFiles(analysis, files) ==
    IF files = <<>> THEN analysis
    ELSE AnalyzeFiles(AnalyzeFile(analysis, Head(files)), Tail(files))

RECURSIVE SumKeywords(_)
SumKeywords(counts) ==
    IF counts = <<>> THEN 0
    ELSE Min(Head(counts) * 2, 10) + SumKeywords(Tail(counts))

\* pricing_service.py:187-217
_analyze_specification_complexity(specification) ==
    Min(SumKeywords(specification), 50)

\* pricing_service.py:82-131
_analyze_module_complexity(module_code, specification) ==
    [AnalyzeFiles(EmptyAnalysis, module_code.files) EXCEPT
        !.workflow_complexity =
            _analyze_specification_complexity(specification)]

\* module_code.items() or content.split raises
AnalysisRaises(module_code) ==
    \/ ~module_code.is_dict
    \/ \E i \in 1..Len(module_code.files) :
          ~module_code.files[i].empty /\ ~module_code.files[i].is_str

\* min(fix_attempts * 2, 10) raises for a value that is not a number
ScoringRaises(fix_attempts) == ~fix_attempts.is_number

\* pricing_service.py:223-247: the score of each factor, in 150ths of a
\* point
FactorScores150(ca) ==
    [lines      |-> Min(3 * ca.lines_of_code, 30 * 150),
     models     |-> 150 * Min(ca.python_models * 5, 25),
     views      |-> 150 * Min(ca.xml_views * 3, 20),
     security   |-> 150 * Min(ca.security_rules * 2, 10),
     data       |-> 150 * Min(ca.data_files * 2, 5),
     fix        |-> 150 * Min(ca.fix_attempts.value * 2, 10),
     workflow   |-> Min(50 * ca.workflow_complexity, 15 * 150),
     additional |-> 150 * ( Min(ca.api_controllers * 3, 10)
                          + Min(ca.wizard_files * 2, 8)
                          + Min(ca.report_files * 3, 12) )]

\* pricing_service.py:249-250
TotalScore150(ca) ==
    LET f == FactorScores150(ca)
    IN  f.lines + f.models + f.views + f.security + f.data + f.fix
            + f.workflow + f.additional

\* pricing_service.py:219-254
_calculate_complexity_score(ca) ==
    IntOf(Min(TotalScore150(ca), 100 * 150), 150)

\* pricing_service.py:256-280: the weighted scores, in 5000ths of a point
_calculate_weighted_scores(ca) ==
    [lines_of_code  |-> 30 * Min(ca.lines_of_code, 30 * 50),
     python_models  |-> 25 * 50 * Min(ca.python_models * 5, 25),
     xml_views      |-> 20 * 50 * Min(ca.xml_views * 3, 20),
     security_rules |-> 10 * 50 * Min(ca.security_rules * 2, 10),
     data_files     |-> 5 * 50 * Min(ca.data_files * 2, 5),
     fix_attempts   |-> 10 * 50 * Min(ca.fix_attempts.value * 2, 10)]

\* the same without the floor at base_price
FinalPrice_no_floor(complexity_score) ==
    LET price_multiplier == Min(complexity_score, 100)
    IN  RoundOf(100 * base_price
                  + price_multiplier * (max_price - base_price), 500) * 5

\* pricing_service.py:42-50: the price for a complexity score
FinalPrice(complexity_score) ==
    LET price_multiplier == Min(complexity_score, 100)
        rounded == RoundOf(100 * base_price
                             + price_multiplier * (max_price - base_price),
                           500) * 5
    IN  Max(rounded, base_price)

\* the same with the maximum price
ErrorResult_max_price(clock) ==
    [base_price |-> base_price, complexity_score |-> 0,
     final_price |-> max_price,
     pricing_breakdown |-> [error |-> "str(e)", calculated_at |-> clock]]

\* pricing_service.py:69-80: the result of the except branch
ErrorResult(clock) ==
    [base_price |-> base_price, complexity_score |-> 0,
     final_price |-> base_price,
     pricing_breakdown |-> [error |-> "str(e)", calculated_at |-> clock]]

\* pricing_service.py:27-80; price_multiplier is in hundredths
calculate_price(x, clock) ==
    IF AnalysisRaises(x.module_code) \/ ScoringRaises(x.fix_attempts)
    THEN ErrorResult(clock)
    ELSE LET complexity_analysis ==
                 DictUpdate(_analyze_module_complexity(x.module_code,
                                                       x.specification),
                            [fix_attempts |-> x.fix_attempts])
             complexity_score ==
                 _calculate_complexity_score(complexity_analysis)
         IN  [base_price |-> base_price,
              complexity_score |-> complexity_score,
              final_price |-> FinalPrice(complexity_score),
              pricing_breakdown |->
                  [complexity_analysis |-> complexity_analysis,
                   weighted_scores |->
                       _calculate_weighted_scores(complexity_analysis),
                   price_multiplier |-> Min(complexity_score, 100),
                   calculated_at |-> clock]]

(* ------------ SpecPricing: calculate_price called repeatedly ----------- *)

InitPricing ==
    /\ InitCommon
    /\ InitNoInstall
    /\ exec_in = NoExec
    /\ exec_out = NoResults
    /\ price_in \in PriceInputs(MaxFiles)
    /\ price_out = <<>>

\* POST /pricing/calculate with the input of this behaviour
CallCalculatePrice ==
    /\ running = NoTask
    /\ Len(price_out) < MaxCalls
    /\ price_out' = Append(price_out, calculate_price(price_in, now))
    /\ UNCHANGED <<active_sessions, session_dicts, containers, next_id, task,
                   running, stops, exec_in, exec_out, price_in, installVars,
                   uatVars>>

NextPricing == CallCalculatePrice \/ Tick

SpecPricing == InitPricing /\ [][NextPricing]_vars

(* ====================== properties: test sessions ====================== *)

Terminal == {"completed", "failed", "stopped"}

\* position of a status in the sequence of the data model
Rank(status) ==
    CASE status = "absent"                -> 0
      [] status = "initializing"          -> 1
      [] status = "preparing_environment" -> 2
      [] status = "installing_module"     -> 3
      [] status = "generating_tests"      -> 4
      [] status = "running_tests"         -> 5
      [] status = "processing_results"    -> 6
      [] OTHER                            -> 7

Created(d) == session_dicts[d].status # "absent"

Ends(t) == task[t].pc # "done" /\ task'[t].pc = "done"

SessionContainers(cs, sid) == {c \in cs : c.sid = sid}

\* C1: the status of a session only moves forward through the sequence
\* initializing .. processing_results, terminal: no write replaces a later
\* status by an earlier one.
C1_StatusForward ==
    [][\A d \in Tasks : Created(d) =>
          Rank(session_dicts'[d].status) >= Rank(session_dicts[d].status)]_vars

\* C2: once the status of a session is completed, failed or stopped it
\* never changes again.
C2_TerminalStable ==
    [][\A d \in Tasks : session_dicts[d].status \in Terminal =>
          session_dicts'[d].status = session_dicts[d].status]_vars

\* C3: when the background task of a test session ends with a terminal
\* status, no container named for the session exists.
C3_NoContainerAtEnd ==
    [][\A t \in Tasks :
          (Ends(t) /\ session_dicts'[task[t].session].status \in Terminal)
              => SessionContainers(containers', Sid(t)) = {}]_vars

ListedFailures == {"fetch", "db_ready", "app_ready", "synthesis", "execution"}

ErrorRecorded(dict) ==
    \/ dict.error # NoMsg
    \/ dict.results.kind = "test" /\ dict.results.error # NoMsg
    \/ dict.results.kind = "test" /\ dict.results.error_summary # NoMsg

\* C4: a session in which the artifact fetch, a readiness poll, the test
\* synthesis or the test execution failed or timed out ends with status
\* failed, an error recorded and no container of the session left.
C4_FailureEndsFailed ==
    [][\A t \in Tasks :
          (Ends(t) /\ task[t].failure \in ListedFailures)
              => /\ session_dicts'[task[t].session].status = "failed"
                 /\ ErrorRecorded(session_dicts'[task[t].session])
                 /\ SessionContainers(containers', Sid(t)) = {}]_vars

\* C5: provisioning under a session-id collision: there are never two live
\* database containers for one id, and a _start_postgres_container call
\* that finds a same-named container replaces it by the one it returns.
C5_ProvisionIdempotent ==
    /\ [](\A sid \in SessionIds :
             Cardinality(Named(containers, "postgres", sid)) <= 1)
    /\ [][\A t \in Tasks :
             (task[t].pc = "start_pg" /\ task'[t].pc # "start_pg"
                 /\ Named(containers, "postgres", Sid(t)) # {})
             => /\ task'[t].pc = "wait_pg"
                /\ Named(containers', "postgres", Sid(t)) =
                      {[kind |-> "postgres", sid |-> Sid(t),
                        id |-> task'[t].postgres_container]}
                /\ Named(containers, "postgres", Sid(t))
                      \cap containers' = {}]_vars

\* a second provisioning call has replaced the database container that the
\* first call, still waiting for it, had started
C5_Witness ==
    \E t, u \in Tasks :
        /\ t # u /\ Sid(t) = Sid(u) /\ stops = 0
        /\ task[u].pc = "wait_pg" /\ task[t].pc = "wait_pg"
        /\ task[u].postgres_container \notin LiveIds(containers)
        /\ task[t].postgres_container \in LiveIds(containers)

\* C7: a result of run_tests has success only with failed_tests = 0 and
\* total_tests > 0, and a session is completed only with such a result.
C7_SuccessOnlyWithTests ==
    /\ \A t \in Tasks : task[t].test_results.kind = "test" =>
          (task[t].test_results.success =>
              /\ task[t].test_results.failed_tests = 0
              /\ task[t].test_results.total_tests > 0)
    /\ \A d \in Tasks : session_dicts[d].status = "completed" =>
          /\ session_dicts[d].results.kind = "test"
          /\ session_dicts[d].results.success
          /\ session_dicts[d].results.failed_tests = 0
          /\ session_dicts[d].results.total_tests > 0

\* a session was marked completed, and another run without any test was not
C7_Witness ==
    /\ \E d \in Tasks : session_dicts[d].status = "completed"
    /\ \E d \in Tasks : /\ session_dicts[d].status = "failed"
                        /\ session_dicts[d].results.kind = "test"
                        /\ session_dicts[d].results.total_tests = 0
                        /\ session_dicts[d].results.failed_tests = 0

(* ======================= properties: run_tests ========================= *)

\* C6: every result of run_tests has
\* total_tests = passed_tests + failed_tests + skipped_tests.
C6_TotalIsSum ==
    exec_out.kind = "test" =>
        exec_out.total_tests =
            exec_out.passed_tests + exec_out.failed_tests
                + exec_out.skipped_tests

\* C8: when the test-runner process exceeds its timeout, run_tests returns a
\* result with success = false, total_tests = 0 and an error message that
\* contains "timed out".
C8_TimeoutReported ==
    (exec_in.mode = "timeout" /\ exec_out.kind = "test") =>
        /\ ~exec_out.success
        /\ exec_out.total_tests = 0
        /\ \/ ContainsTimedOut(exec_out.error)
           \/ ContainsTimedOut(exec_out.error_summary)

(* =================== properties: acceptance sessions =================== *)

\* the event loop runs every coroutine that can continue
FairSpecUat ==
    /\ SpecUat
    /\ \A t \in Tasks : WF_vars(create_uat_session(t))
    /\ \A t \in Tasks : WF_vars(_schedule_cleanup(t))

\* C9: a create_uat_session that waits for the tunnel URL and never reads
\* it gives up: it ends with no session recorded as active for its tunnel,
\* the tunnel process terminated and the containers of the session removed.
C9_TunnelWaitGivesUp ==
    \A t \in Tasks :
        (task[t].kind = "uat" /\ task[t].pc \in TunnelPcs)
            ~> \/ task[t].tunnel_url
               \/ /\ task[t].pc = "done"
                  /\ t \notin processes
                  /\ \A sid \in SessionIds :
                        active_uat_sessions[sid].tunnel # t
                  /\ SessionContainers(containers, Sid(t)) = {}

\* C10: extend_uat_session never lowers expires_at, whatever integer
\* additional_minutes the request carries.
C10_ExtendOnlyIncreases ==
    [][\A sid \in SessionIds, m \in AdditionalMinutes :
          extend_uat_session(sid, m) =>
              active_uat_sessions'[sid].expires_at
                  >= active_uat_sessions[sid].expires_at]_vars

\* C11: every session in the registry with status active has
\* expires_at >= now.
C11_ActiveNotExpired ==
    \A sid \in SessionIds :
        active_uat_sessions[sid].status = "active"
            => active_uat_sessions[sid].expires_at >= now

\* the event loop runs every coroutine that can continue, and the clock
\* advances
FairClockSpecUat ==
    /\ FairSpecUat
    /\ WF_vars(Tick)

\* a _schedule_cleanup task of the session sleeps to a time the clock does
\* not reach
WakeBeyondClock(sid) ==
    \E t \in Tasks : /\ cleanup_tasks[t].session_id = sid
                     /\ cleanup_tasks[t].expires_at > MaxNow

\* C12: an active session whose current expiry has passed is eventually
\* torn down (registry entry, recorded tunnel process and containers gone)
\* without any status read or explicit stop, also when the expiry was
\* extended during the scheduler's sleep (or the expiry is extended again
\* and lies in the future); excepted are a scheduler whose wake-up lies
\* beyond the clock's range and an event loop held by a coroutine blocked in
\* the tunnel's readline.
C12_ExpiredTornDown ==
    \A sid \in SessionIds :
        (/\ active_uat_sessions[sid].status = "active"
         /\ now >= active_uat_sessions[sid].expires_at
         /\ ~WakeBeyondClock(sid))
            ~> \/ /\ active_uat_sessions[sid] = NoUat
                  /\ cloudflared_processes[sid] = NoTask
                  /\ SessionContainers(containers, sid) = {}
               \/ /\ active_uat_sessions[sid].status = "active"
                  /\ now < active_uat_sessions[sid].expires_at
               \/ \E t \in Tasks : running = t /\ task[t].pc = "tunnel_readline"

(* ======================== properties: stopping ========================= *)

\* the test sessions with the clock advancing between requests
NextTimed == Next \/ Tick

SpecTimed == Init /\ [][NextTimed]_vars

\* the test session was stopped and its background task has ended
TestStopped(sid) ==
    /\ active_sessions[sid] # NoTask
    /\ session_dicts[active_sessions[sid]].status = "stopped"
    /\ \A t \in Tasks : task[t].session_id = sid => task[t].pc = "done"

\* the acceptance session was removed from the registry and no
\* create_uat_session for its id is in progress
UatTornDown(sid) ==
    /\ active_uat_sessions[sid] = NoUat
    /\ \E t \in Tasks : task[t].session_id = sid
    /\ \A t \in Tasks : task[t].session_id = sid => task[t].pc = "done"

\* a cleanup_uat_session call: the explicit stop or the expiry scheduler
CleanupUatCall(sid) ==
    \/ stop_uat_session(sid)
    \/ \E t \in Tasks : cleanup_tasks[t].session_id = sid /\ ScheduleWake(t)

\* the acceptance half of C13
SecondCleanupNoOp ==
    \A sid \in SessionIds :
        (UatTornDown(sid) /\ CleanupUatCall(sid))
            => UNCHANGED <<active_uat_sessions, cloudflared_processes,
                           processes, containers>>

\* the test half of C13
SecondStopNoOp ==
    \A sid \in SessionIds :
        (TestStopped(sid) /\ stop_testing(sid))
            => UNCHANGED <<active_sessions, session_dicts, containers>>

\* C13: a second stop is a no-op: a cleanup_uat_session for an acceptance
\* session already torn down, and a POST /test/stop for a test session
\* already stopped, change no registry field, tunnel process or container.
C13_SecondStopNoOp == [][SecondStopNoOp /\ SecondCleanupNoOp]_vars

(* ==================== properties: tunnel processes ===================== *)

\* the live tunnel processes started for a session id
TunnelsOf(sid) == {p \in processes : task[p].session_id = sid}

\* C14: there is at most one live tunnel process per session id, and a
\* live tunnel process whose create_uat_session has ended is the one
\* recorded for its session in cloudflared_processes.
C14_OneTunnelPerSession ==
    /\ \A sid \in SessionIds : Cardinality(TunnelsOf(sid)) <= 1
    /\ \A p \in processes :
          task[p].pc = "done"
              => cloudflared_processes[task[p].session_id] = p

(* ========================= properties: pricing ========================= *)

\* the input makes the analysis or the scoring raise
InternalFailure(x) ==
    AnalysisRaises(x.module_code) \/ ScoringRaises(x.fix_attempts)

\* C15: two calculate_price calls with identical arguments, made at any two
\* times, return results that are identical in every field.
C15_PricingDeterministic ==
    \A i, j \in 1..Len(price_out) : price_out[i] = price_out[j]

\* C16: the final_price of every result is a multiple of 5 with
\* base_price <= final_price <= max_price.
C16_PriceInRange ==
    \A i \in 1..Len(price_out) :
        /\ price_out[i].final_price % 5 = 0
        /\ base_price <= price_out[i].final_price
        /\ price_out[i].final_price <= max_price

\* a negative score was priced at base_price
C16_Witness ==
    /\ Len(price_out) >= 1
    /\ price_out[1].complexity_score < 0
    /\ price_out[1].final_price = base_price

\* C17: when the analysis or the scoring fails, calculate_price returns a
\* result with final_price = base_price and complexity_score = 0.
C17_ErrorGivesBasePrice ==
    InternalFailure(price_in) =>
        \A i \in 1..Len(price_out) :
            /\ price_out[i].final_price = base_price
            /\ price_out[i].complexity_score = 0

\* calculate_price has returned for a bundle that is not a dict of strings
C17_Witness ==
    /\ AnalysisRaises(price_in.module_code)
    /\ Len(price_out) >= 1

\* the documented cap of each factor, in points
FactorCaps ==
    [lines |-> 30, models |-> 25, views |-> 20, security |-> 10,
     data |-> 5, fix |-> 10, workflow |-> 15]

\* C18: the complexity_score of every result is in 0..100, and the score of
\* each factor lies between 0 and its documented cap.
C18_ScoreInRange ==
    \A i \in 1..Len(price_out) :
        /\ price_out[i].complexity_score \in 0..100
        /\ ~InternalFailure(price_in) =>
              LET f == FactorScores150(
                           price_out[i].pricing_breakdown.complexity_analysis)
              IN  \A k \in DOMAIN FactorCaps :
                      0 <= f[k] /\ f[k] <= 150 * FactorCaps[k]

(* ======================= properties: install_module ==================== *)

\* C19: install_module returns a result for every outcome, and its success
\* is true exactly when the install command ran, exited with status 0 and
\* its log holds no CRITICAL marker.
C19_InstallSuccessRule ==
    install_out # NoResults =>
        /\ install_out.kind = "install"
        /\ install_out.success <=>
              /\ Named(containers, "odoo", install_in.session_id) # {}
              /\ install_in.raises = "none"
              /\ install_in.exit_code = 0
              /\ ~ContainsCritical(install_in.logs)

\* the command exited with status 0, its log holds a CRITICAL line, and the
\* result is a failure
C19_Witness ==
    /\ install_out # NoResults
    /\ Named(containers, "odoo", install_in.session_id) # {}
    /\ install_in.raises = "none"
    /\ install_in.exit_code = 0
    /\ ContainsCritical(install_in.logs)
    /\ ~install_out.success

(* ======================= properties: provisioning ====================== *)

\* C20: an application container is started only when the database
\* container live for its session id is the one that has just answered the
\* caller's readiness probe, and a session id never has more than one
\* database container or more than one application container.
C20_AppAfterDatabaseReady ==
    /\ [](\A sid \in SessionIds, k \in ContainerKinds :
             Cardinality(Named(containers, k, sid)) <= 1)
    /\ [][\A t \in Tasks :
             (task[t].pc = "start_odoo" /\ task'[t].pc = "odoo_ports")
             => /\ Named(containers, "postgres", Sid(t)) =
                      {[kind |-> "postgres", sid |-> Sid(t),
                        id |-> task[t].postgres_container]}
                /\ Named(containers', "postgres", Sid(t)) =
                      Named(containers, "postgres", Sid(t))
                /\ Named(containers', "odoo", Sid(t)) =
                      {[kind |-> "odoo", sid |-> Sid(t),
                        id |-> task'[t].odoo_container]}]_vars

\* two calls share a session id: one has started the application container
\* after its probe was answered, the database container of the other was
\* replaced meanwhile
C20_Witness ==
    \E t, u \in Tasks :
        /\ t # u /\ Sid(t) = Sid(u) /\ stops = 0
        /\ task[t].pc = "wait_odoo"
        /\ task[t].odoo_container \in LiveIds(containers)
        /\ task[t].postgres_container \in LiveIds(containers)
        /\ task[u].pc = "wait_pg"
        /\ task[u].postgres_container \notin LiveIds(containers)

(* ==================== properties: results of a session ================= *)

\* C21: GET /test/results answers 400 while the session is not terminal, and
\* for a session that is completed, failed or stopped it answers with the
\* results of the session.
C21_ResultsWhenTerminal ==
    \A sid \in SessionIds :
        active_sessions[sid] # NoTask =>
            IF session_dicts[active_sessions[sid]].status \in Terminal
            THEN /\ get_test_results(sid).status_code = 200
                 /\ get_test_results(sid).body
                        = session_dicts[active_sessions[sid]].results
            ELSE get_test_results(sid).status_code = 400

\* C22: a registry entry holds results only when its status is completed or
\* failed.
C22_ResultsOnlyWhenFinished ==
    \A sid \in SessionIds :
        (/\ active_sessions[sid] # NoTask
         /\ session_dicts[active_sessions[sid]].results # NoResults)
            => session_dicts[active_sessions[sid]].status
                   \in {"completed", "failed"}

\* C23: every POST /test/start creates a session id of its own: no two
\* accepted requests, and so no two pipelines, have the same id, and no
\* request replaces the registry entry of another.
C23_DistinctSessionIds ==
    \A t \in Tasks : \A u \in Tasks :
        (t # u /\ task[t].kind = "test" /\ task[u].kind = "test") =>
            /\ task[t].session_id # task[u].session_id
            /\ active_sessions[task[t].session_id] = t

\* C24: once POST /test/stop has returned for a session, its pipeline
\* creates no container for that session any more.
C24_NoContainerAfterStop ==
    [][\A sid \in SessionIds :
          (active_sessions[sid] # NoTask
              /\ session_dicts[active_sessions[sid]].stopped_at # NoTime) =>
              SessionContainers(containers', sid)
                  \subseteq SessionContainers(containers, sid)]_vars

(* ================== properties: run_tests, part 2 ====================== *)

\* C25: when neither the JSON nor the XML report can be read or parsed,
\* run_tests returns a result (it does not raise) with total_tests = 0, no
\* test case and success = false.
C25_NoReportNoSuccess ==
    (/\ exec_in.json \in {"absent", "malformed"}
     /\ exec_in.xml \in {"absent", "malformed"}
     /\ exec_out # NoResults) =>
        /\ exec_out.kind = "test"
        /\ exec_out.total_tests = 0
        /\ exec_out.test_cases = <<>>
        /\ ~exec_out.success

\* a finished run of two tests left two unreadable files, and run_tests
\* returned
C25_Witness ==
    /\ exec_in.mode = "finished"
    /\ Len(exec_in.tests) = 2
    /\ exec_in.json = "malformed"
    /\ exec_in.xml = "malformed"
    /\ exec_out # NoResults

(* ==================== properties: pricing, part 2 ====================== *)

\* the counters of model classes, view elements, access rules and API
\* endpoints
ComplexityCounters ==
    {"python_models", "xml_views", "security_rules", "api_controllers"}

\* what one file contributes to a counter: the count its analysis returns
PerFileCount(f, k) ==
    IF f.empty \/ f.ext \notin {"py", "xml"} THEN 0
    ELSE LET d == IF f.ext = "py" THEN _analyze_python_file(f)
                  ELSE _analyze_xml_file(f)
         IN  IF k \in DOMAIN d THEN d[k] ELSE 0

RECURSIVE SumCounts(_, _)
SumCounts(files, k) ==
    IF files = <<>> THEN 0
    ELSE PerFileCount(Head(files), k) + SumCounts(Tail(files), k)

\* C26: in every result of calculate_price each of the four counters is the
\* sum of the per-file counts of the bundle, and the analysis of the bundle
\* with its last file added has no counter lower than without it.
C26_CountersAreSums ==
    \A i \in 1..Len(price_out) :
        ~InternalFailure(price_in) =>
            \A k \in ComplexityCounters :
                /\ price_out[i].pricing_breakdown.complexity_analysis[k]
                       = SumCounts(price_in.module_code.files, k)
                /\ \A n \in 1..Len(price_in.module_code.files) :
                       AnalyzeFiles(EmptyAnalysis,
                           SubSeq(price_in.module_code.files, 1, n - 1))[k]
                         <= AnalyzeFiles(EmptyAnalysis,
                               SubSeq(price_in.module_code.files, 1, n))[k]

(* ================= properties: order of the pipeline =================== *)

\* the pipeline t passes the call of one of its steps
Invokes(t, pc) == task[t].kind = "test" /\ task[t].pc = pc /\ task'[t].pc # pc

\* C27: the pipeline installs only after provisioning returned, synthesizes
\* only after an installation with success = true, and invokes the executor
\* only after all three: provisioning returned, installation succeeded,
\* script synthesized.  After an installation with success = false neither
\* the synthesizer nor the executor is invoked.
C27_StepsInOrder ==
    [][\A t \in Tasks :
          /\ Invokes(t, "install") =>
                 /\ task[t].container_info
                 /\ task[t].installation_result = NoResults
          /\ Invokes(t, "generate") =>
                 /\ task[t].container_info
                 /\ task[t].installation_result.kind = "install"
                 /\ task[t].installation_result.success
                 /\ ~task[t].test_script
          /\ Invokes(t, "run_tests") =>
                 /\ task[t].container_info
                 /\ task[t].installation_result.kind = "install"
                 /\ task[t].installation_result.success
                 /\ task[t].test_script
                 /\ task[t].test_results = NoResults
          /\ (task[t].installation_result.kind = "install"
                 /\ ~task[t].installation_result.success) =>
                 /\ ~Invokes(t, "generate")
                 /\ ~Invokes(t, "run_tests")]_vars

\* one pipeline has come back from the executor, and another has ended on a
\* failed installation
C27_Witness ==
    /\ \E t \in Tasks : /\ task[t].kind = "test"
                        /\ task[t].test_results # NoResults
    /\ \E d \in Tasks : /\ session_dicts[d].error = "Module installation failed"
                        /\ session_dicts[d].results.kind = "install"

(* ================== properties: run_tests, part 3 ====================== *)

\* C28: whenever run_tests returns success = true, no entry of test_cases
\* has failed: none has the status failed, and none the outcome error.
C28_SuccessMeansNoFailedCase ==
    (exec_out.kind = "test" /\ exec_out.success) =>
        \A i \in 1..Len(exec_out.test_cases) :
            exec_out.test_cases[i].status \notin {"failed", "error"}

(* ============== properties: acceptance sessions, part 2 ================ *)

\* C29: every acceptance session recorded as active has its database
\* container and its application container, and its tunnel process is
\* recorded; a stop request during provisioning or during the tunnel wait
\* does not lead to an active session without them.
C29_ActiveHasResources ==
    \A sid \in SessionIds :
        active_uat_sessions[sid].status = "active" =>
            /\ \A k \in ContainerKinds :
                   \E c \in containers : c.sid = sid /\ c.kind = k
            /\ cloudflared_processes[sid] # NoTask

\* C30: extend_uat_session never makes an expired session live again: after
\* an extension of a session whose expiry had passed, neither
\* list_active_sessions nor get_uat_session reports it.
C30_ExtendKeepsExpired ==
    [][\A sid \in SessionIds :
          (/\ active_uat_sessions[sid] # NoUat
           /\ now > active_uat_sessions[sid].expires_at
           /\ extends' = extends + 1)
              => sid \notin list_active_sessions']_vars

====
